---------------------------- MODULE Spec2Model ----------------------------
(***************************************************************************)
(* A model of script.py: class ShopMediaScrapper.                          *)
(*                                                                         *)
(* Text that the program inspects character by character (hostnames and    *)
(* scraped social links) is a sequence of one-character strings.  Text     *)
(* that the program only copies (paths, column names, titles) is a string. *)
(* An optional Python value is None == << >> or Some(v) == << v >>.        *)
(***************************************************************************)
EXTENDS Naturals, Integers, Sequences, FiniteSets, TLC

VARIABLES
    entry,          \* the method that was called on the ShopMediaScrapper
    pc,             \* position of the running call
    input_header,   \* stores.csv: the first line, a list of column names
    input_lines,    \* stores.csv: the following lines, each a list of cells
    url_column_index, \* start_scraping: index of the 'url' column (0-based)
    line_no,        \* start_scraping: number of lines taken from input_reader
    shop_host,      \* the host argument of the running scrape_* call
    ep,             \* scrape_shop_contact_info: endpoints already iterated
    output,         \* scrape_shop_contact_info: key -> list, then key -> pick
    responses,      \* what requests.get gave for each contact endpoint so far
    found_links,    \* scrape_shop_product_info: findall() of the listing page
    product_links,  \* scrape_shop_product_info: the retained links
    i,              \* scrape_shop_product_info: slots filled so far
    product_output, \* scrape_shop_product_info: its output dict
    product_responses, \* what requests.get gave for each product so far
    returned,       \* the value the called method returned (when pc = "returned")
    output_rows,    \* output.csv: the rows written after the header row
    requests,       \* every requests.get call issued so far, in order
    single_shop_output, \* start_scraping: the row being built for the line
    socials_list    \* the socials_list argument of a direct resolver call

vars == << entry, pc, input_header, input_lines, url_column_index, line_no,
           shop_host, ep, output, responses, found_links, product_links, i,
           product_output, product_responses, returned, output_rows, requests, single_shop_output,
           socials_list >>

----------------------------------------------------------------------------
(* Python values *)

None == << >>

Some(v) == << v >>

Min(a, b) == IF a < b THEN a ELSE b

Max(a, b) == IF a > b THEN a ELSE b

Range(s) == { s[k] : k \in DOMAIN s }

\* s[:k] for a list or string s, with Python's meaning of a negative k
PySliceTo(s, k) ==
    IF k >= 0 THEN SubSeq(s, 1, Min(k, Len(s)))
    ELSE SubSeq(s, 1, Max(0, Len(s) + k))

\* s.find(sub): the lowest 0-based index where sub occurs in s, or -1
PyFind(s, sub) ==
    LET hits == { k \in 0 .. (Len(s) - Len(sub)) :
                    SubSeq(s, k + 1, k + Len(sub)) = sub }
    IN  IF hits = {} THEN -1 ELSE CHOOSE k \in hits : \A m \in hits : k <= m

\* s.split(sep) for a one-character sep: the pieces between separators,
\* empty pieces included, so the result is never the empty list
RECURSIVE PySplit(_, _)
PySplit(s, sep) ==
    LET k == PyFind(s, << sep >>)
    IN  IF k = -1 THEN << s >>
        ELSE << SubSeq(s, 1, k) >> \o PySplit(SubSeq(s, k + 2, Len(s)), sep)

UpperLetters ==
    << "A", "B", "C", "D", "E", "F", "G", "H", "I", "J", "K", "L", "M",
       "N", "O", "P", "Q", "R", "S", "T", "U", "V", "W", "X", "Y", "Z" >>

LowerLetters ==
    << "a", "b", "c", "d", "e", "f", "g", "h", "i", "j", "k", "l", "m",
       "n", "o", "p", "q", "r", "s", "t", "u", "v", "w", "x", "y", "z" >>

\* s.lower() on the ASCII letters
PyLower(s) ==
    [ k \in DOMAIN s |->
        IF \E n \in DOMAIN UpperLetters : UpperLetters[n] = s[k]
        THEN LowerLetters[CHOOSE n \in DOMAIN UpperLetters : UpperLetters[n] = s[k]]
        ELSE s[k] ]

Whitespace == { " ", "\t", "\n", "\r" }

\* s.strip(): leading and trailing whitespace removed
PyStrip(s) ==
    LET keep == { k \in DOMAIN s : s[k] \notin Whitespace }
    IN  IF keep = {} THEN << >>
        ELSE SubSeq(s, CHOOSE a \in keep : \A m \in keep : a <= m,
                       CHOOSE b \in keep : \A m \in keep : b >= m)

HexDigits == << "0", "1", "2", "3", "4", "5", "6", "7", "8", "9",
                "a", "b", "c", "d", "e", "f" >>

IsHex(c) == \E n \in DOMAIN HexDigits : HexDigits[n] = PyLower(<< c >>)[1]

HexValue(c) == (CHOOSE n \in DOMAIN HexDigits : HexDigits[n] = PyLower(<< c >>)[1]) - 1

\* The printable ASCII characters, code 32 (space) to code 126 (~); the grave
\* accent (code 96), which a TLA+ string cannot hold, is written \x96
Ascii ==
    << " ", "!", "\"", "#", "$", "%", "&", "'", "(", ")", "*", "+", ",", "-", ".", "/",
       "0", "1", "2", "3", "4", "5", "6", "7", "8", "9", ":", ";", "<", "=", ">", "?",
       "@", "A", "B", "C", "D", "E", "F", "G", "H", "I", "J", "K", "L", "M", "N", "O",
       "P", "Q", "R", "S", "T", "U", "V", "W", "X", "Y", "Z", "[", "\\", "]", "^", "_",
       "\\x96", "a", "b", "c", "d", "e", "f", "g", "h", "i", "j", "k", "l", "m", "n", "o",
       "p", "q", "r", "s", "t", "u", "v", "w", "x", "y", "z", "{", "|", "}", "~" >>

\* The character of a decoded byte.  Bytes outside printable ASCII are kept
\* apart from every ASCII character (the links of LinkPool hold none).
ByteChar(b) == IF b >= 32 /\ b <= 126 THEN Ascii[b - 31] ELSE "\\x" \o ToString(b)

\* urllib.parse.unquote: every %XX with two hex digits becomes the character
\* of that byte; a '%' not followed by two hex digits stays; decoded text is
\* not decoded again
RECURSIVE unquote(_)
unquote(s) ==
    IF s = << >> THEN << >>
    ELSE IF s[1] = "%" /\ Len(s) >= 3 /\ IsHex(s[2]) /\ IsHex(s[3])
         THEN << ByteChar(16 * HexValue(s[2]) + HexValue(s[3])) >>
                  \o unquote(SubSeq(s, 4, Len(s)))
         ELSE << s[1] >> \o unquote(Tail(s))

----------------------------------------------------------------------------
(* _select_accurate_socials *)

\* scoring_words = host[:host.find('.')].split('-')
scoring_words(host) == PySplit(PySliceTo(host, PyFind(host, << "." >>)), "-")

sanitized_without_lower(social_media_link) ==
    PyStrip(unquote(social_media_link))

sanitized_social_media_link(social_media_link) ==
    PyLower(PyStrip(unquote(social_media_link)))

\* The inner loop: score += 1 for every scoring word found in the link
RECURSIVE CountFound(_, _)
CountFound(words, link) ==
    IF words = << >> THEN 0
    ELSE (IF PyFind(link, Head(words)) > -1 THEN 1 ELSE 0)
             + CountFound(Tail(words), link)

score(social_media_link, words) ==
    CountFound(words, sanitized_social_media_link(social_media_link))

\* The score of every link of the list, in the order of the list
RECURSIVE scores(_, _)
scores(socials, words) ==
    IF socials = << >> THEN << >>
    ELSE << score(Head(socials), words) >> \o scores(Tail(socials), words)

\* The links whose score is s, in the order of the list
RECURSIVE scored(_, _, _)
scored(socials, points, s) ==
    IF socials = << >> THEN << >>
    ELSE (IF Head(points) = s THEN << Head(socials) >> ELSE << >>)
             \o scored(Tail(socials), Tail(points), s)

\* score_dict after the loop of lines 100-110: score -> the links with that
\* score, in the order of the list
score_dict(socials, host) ==
    LET points == scores(socials, scoring_words(host))
    IN  [ s \in Range(points) |-> scored(socials, points, s) ]

MaxOf(S) == CHOOSE m \in S : \A n \in S : m >= n

MinOf(S) == CHOOSE m \in S : \A n \in S : m <= n

winners_lowest(sd) == sd[MinOf(DOMAIN sd)]

\* winners = score_dict[max(score_dict.keys())]
winners(sd) == sd[MaxOf(DOMAIN sd)]

\* Every value _select_accurate_socials(socials, host) can return: None for
\* an empty score_dict, else winners[random.randint(0, len(winners) - 1)]
select_accurate_socials(socials, host) ==
    LET sd == score_dict(socials, host)
        won == winners(sd)
    IN  IF DOMAIN sd = {} THEN { None }
        ELSE { Some(won[k]) : k \in 1 .. Len(won) }

----------------------------------------------------------------------------
(* Class constants *)

STORE_FILE_URL_COLUMN_NAME == "url"

SCRAPING_ENDPOINTS ==
    << "/", "/pages/about", "/pages/about-us", "/contact", "/contact-us" >>

PRODUCT_LIST_ENDPOINT == "/collections/all"

\* The keys of STORE_INFO_REGEXES, in the order the dict is iterated
STORE_INFO_REGEXES == << "twitter", "facebook", "email" >>

NUMBER_OF_PRODUCTS == 5

OUTPUT_COLUMNS ==
    << "shop_url", "twitter", "facebook", "email",
       "product_0_title", "product_0_img_src", "product_1_title", "product_1_img_src",
       "product_2_title", "product_2_img_src", "product_3_title", "product_3_img_src",
       "product_4_title", "product_4_img_src" >>

----------------------------------------------------------------------------
(* requests.get and what it gives back *)

\* A call of requests.get either raises (a transport failure) or gives a
\* response with a status_code and a text.  A text is modelled by what the
\* program reads of it: what each regular expression finds in it, and the
\* JSON document it holds.
ConnectionError == [raised |-> TRUE, status_code |-> 0, text |-> << >>]

Response(code, page) == [raised |-> FALSE, status_code |-> code, text |-> page]

Text(tw, fb, em, links, doc) ==
    [twitter |-> tw, facebook |-> fb, email |-> em, product |-> links, json |-> doc]

\* rgx.findall(response.text) for the regular expression stored under key
findall(key, text) == text[key]

\* JSON documents
NotJson == [kind |-> "invalid"]

JNull == [kind |-> "null"]

JArr == [kind |-> "array"]

JStr(s) == [kind |-> "string", val |-> s]

JObj(f) == [kind |-> "object", fields |-> f]

Raise(e) == [kind |-> "raise", exc |-> e]

\* response.json()
json(text) == IF text.json = NotJson THEN Raise("JSONDecodeError") ELSE text.json

\* v[key] for a string key: KeyError on a dict without the key, TypeError on
\* anything that is not a dict (None, a list, a string); an exception raised
\* while evaluating v goes on
Subscript(v, key) ==
    IF v.kind = "raise" THEN v
    ELSE IF v.kind = "object"
         THEN IF key \in DOMAIN v.fields THEN v.fields[key] ELSE Raise("KeyError")
         ELSE Raise("TypeError")

\* The Python value of a JSON string or null
PyValue(v) == IF v.kind = "string" THEN Some(v.val) ELSE None

----------------------------------------------------------------------------
(* scrape_shop_contact_info *)

EmptyLists == [key \in Range(STORE_INFO_REGEXES) |-> << >>]

\* Lines 127-134 for one response: a status other than 200 leaves the lists
\* alone, a 200 extends every list by what its regular expression finds
ExtendAnyStatus(out, r) ==
    [key \in DOMAIN out |-> out[key] \o findall(key, r.text)]

Extend(out, r) ==
    IF r.status_code # 200 THEN out
    ELSE [key \in DOMAIN out |-> out[key] \o findall(key, r.text)]

\* Lines 136-137: every way the lists of the three keys can be resolved
Resolutions(out, host) ==
    LET K == STORE_INFO_REGEXES
        first == select_accurate_socials(out[K[1]], host)
        second == select_accurate_socials(out[K[2]], host)
        third == select_accurate_socials(out[K[3]], host)
    IN  { (K[1] :> a) @@ (K[2] :> b) @@ (K[3] :> c) :
            a \in first, b \in second, c \in third }

----------------------------------------------------------------------------
(* scrape_shop_product_info *)

RECURSIVE InjectiveSeqs(_, _)
InjectiveSeqs(S, n) ==
    IF n = 0 THEN { << >> }
    ELSE UNION { { << x >> \o t : t \in InjectiveSeqs(S \ { x }, n - 1) } : x \in S }

\* [*S]: a set unpacked into a list comes out in an order the program does
\* not control; every order is possible
SetToList(S) == InjectiveSeqs(S, Cardinality(S))

retained_without_dedup(found) == { PySliceTo(found, NUMBER_OF_PRODUCTS) }

\* Lines 55-57: [*{*findall(...)}][:NUMBER_OF_PRODUCTS], every possible value
retained(found) ==
    { PySliceTo(order, NUMBER_OF_PRODUCTS) : order \in SetToList(Range(found)) }

title_key(n) == "product_" \o ToString(n) \o "_title"

img_src_key(n) == "product_" \o ToString(n) \o "_img_src"

\* Lines 65-77 for the response r of a product's .json endpoint: the pair
\* << title, image >>.  title is assigned before image is looked up, so an
\* exception raised by the second lookup leaves title set.
product_fields(r) ==
    LET product == Subscript(json(r.text), "product")
        title == Subscript(product, "title")
        image == Subscript(Subscript(product, "image"), "src")
    IN  IF r.status_code # 200 THEN << None, None >>
        ELSE IF title.kind = "raise" THEN << None, None >>
        ELSE IF image.kind = "raise" THEN << PyValue(title), None >>
        ELSE << PyValue(title), PyValue(image) >>

\* dict.update
Update(d, e) ==
    [k \in DOMAIN d \cup DOMAIN e |-> IF k \in DOMAIN e THEN e[k] ELSE d[k]]

EmptyDict == [k \in {} |-> None]

----------------------------------------------------------------------------
(* start_scraping *)

\* header.index('url'): the 0-based index of the first such column
PyIndex(s, v) == (CHOOSE k \in DOMAIN s : s[k] = v /\ \A m \in DOMAIN s : s[m] = v => k <= m) - 1

TextColumns == { "shop_url", "twitter", "facebook", "email" }

\* csv.DictWriter.writerow: one cell per column of fieldnames; a key the dict
\* lacks is written as restval (''), and so is a None value
writerow(d) ==
    [k \in Range(OUTPUT_COLUMNS) |->
        IF k \in DOMAIN d /\ d[k] # None
        THEN IF k = "shop_url" THEN d[k] ELSE d[k][1]
        ELSE IF k \in TextColumns THEN << >> ELSE ""]

----------------------------------------------------------------------------
(* The inputs the model draws from *)

MaxLines == 2        \* data lines of stores.csv

MaxCandidates == 3   \* length of socials_list in a direct resolver call

MaxLinks == 6        \* distinct product links on a listing page

DetailMaxLinks == 2  \* the same, where every kind of product document is drawn

BatchMaxLinks == 1   \* the same, in a run of start_scraping

MaxRepeat == 2       \* times a link occurs on a listing page

HostAbCd == << "a", "b", "-", "c", "d", ".", "i", "o" >>

HostXy == << "x", "y", ".", "i", "o" >>

HostUpper == << "A", "b", ".", "i", "o" >>

HostDash == << "a", "b", "-", ".", "i", "o" >>

HostNoDot == << "a", "b" >>

Hosts == { HostAbCd, HostXy, HostUpper, HostDash, HostNoDot }

TwitterPrefix == << "h", "t", "t", "p", ":", "/", "/", "t", "w", "i", "t", "t", "e", "r", ".", "c", "o", "m", "/" >>

FacebookPrefix == << "h", "t", "t", "p", ":", "/", "/", "f", "a", "c", "e", "b", "o", "o", "k", ".", "c", "o", "m", "/" >>

TwAbcd == TwitterPrefix \o << "a", "b", "c", "d" >>

TwUpperAb == TwitterPrefix \o << "A", "B" >>

TwQuotedAb == TwitterPrefix \o << "%", "6", "1", "b" >>

TwCd == << " " >> \o TwitterPrefix \o << "c", "d" >>

TwXy == TwitterPrefix \o << "x", "y" >>

FbAb == FacebookPrefix \o << "a", "b" >>

EmailAb == << "i", "n", "f", "o", "@", "a", "b", ".", "i", "o" >>

LinkPool == { TwAbcd, TwUpperAb, TwQuotedAb, TwCd, TwXy }

RECURSIVE SeqsUpTo(_, _)
SeqsUpTo(S, n) ==
    IF n = 0 THEN { << >> }
    ELSE SeqsUpTo(S, n - 1) \cup
         { Append(t, x) : t \in { u \in SeqsUpTo(S, n - 1) : Len(u) = n - 1 }, x \in S }

\* Page texts of the contact endpoints
NoMatchText == Text(<< >>, << >>, << >>, << >>, NotJson)

AllFoundText == Text(<< TwXy >>, << FbAb >>, << EmailAb >>, << >>, NotJson)

TwitterOnlyText == Text(<< TwAbcd >>, << >>, << >>, << >>, NotJson)

ContactOutcomes ==
    { ConnectionError, Response(404, AllFoundText), Response(204, AllFoundText),
      Response(200, NoMatchText), Response(200, AllFoundText),
      Response(200, TwitterOnlyText) }

BatchContactOutcomes ==
    { ConnectionError, Response(404, AllFoundText), Response(200, AllFoundText) }

\* Listing pages: the links 1..n, the whole list k times over
ProductLink(n) == "/collections/all/products/p" \o ToString(n)

RECURSIVE Repeated(_, _)
Repeated(n, k) ==
    IF k = 0 THEN << >> ELSE [m \in 1 .. n |-> ProductLink(m)] \o Repeated(n, k - 1)

ListingText(found) == Text(<< >>, << >>, << >>, found, NotJson)

ListingOutcomes(most) ==
    { ConnectionError, Response(404, ListingText(Repeated(1, 1))),
      Response(204, ListingText(Repeated(1, 1))) }
    \cup { Response(200, ListingText(Repeated(n, k))) : n \in 0 .. most, k \in 1 .. MaxRepeat }

\* Product documents
TitleOf(link) == "title of " \o link

ImageOf(link) == "image of " \o link

FullDoc(link) ==
    JObj([product |-> JObj([title |-> JStr(TitleOf(link)),
                            image |-> JObj([src |-> JStr(ImageOf(link))])])])

Docs(link) ==
    { NotJson,
      JArr,
      JObj([error |-> JStr("not found")]),
      JObj([product |-> JNull]),
      JObj([product |-> JObj([image |-> JObj([src |-> JStr(ImageOf(link))])])]),
      JObj([product |-> JObj([title |-> JStr(TitleOf(link))])]),
      JObj([product |-> JObj([title |-> JStr(TitleOf(link)), image |-> JNull])]),
      FullDoc(link) }

DocText(doc) == Text(<< >>, << >>, << >>, << >>, doc)

DetailOutcomes(link) ==
    { ConnectionError, Response(404, DocText(FullDoc(link))) }
    \cup { Response(200, DocText(doc)) : doc \in Docs(link) }

FewDetailOutcomes(link) ==
    { ConnectionError, Response(404, DocText(FullDoc(link))),
      Response(200, DocText(FullDoc(link))) }

Headers == { << "url" >>, << "name", "url" >>, << "name" >>, << "URL", "name" >> }

\* The host of the n-th data line of stores.csv: the two hosts in turn, so
\* that a host comes back on a later line
LineHost(n) == IF n % 2 = 1 THEN HostAbCd ELSE HostXy

\* A line of stores.csv under a header: the host in the url column(s)
Line(header, host) ==
    [c \in DOMAIN header |-> IF header[c] = STORE_FILE_URL_COLUMN_NAME THEN host ELSE << "-" >>]

----------------------------------------------------------------------------
(* The state machine *)

contact_frame == << ep, output, responses >>

product_frame == << found_links, product_links, i, product_output, product_responses >>

input == << entry, input_header, input_lines, socials_list >>

NoCall ==
    /\ url_column_index = 0
    /\ line_no = 0
    /\ ep = 0
    /\ output = EmptyLists
    /\ responses = << >>
    /\ found_links = << >>
    /\ product_links = << >>
    /\ i = 0
    /\ product_output = EmptyDict
    /\ product_responses = << >>
    /\ returned = None
    /\ output_rows = << >>
    /\ requests = << >>
    /\ single_shop_output = EmptyDict

\* scraper.start_scraping() on a stores.csv with a header line and up to
\* MaxLines data lines, each as long as the header
Init ==
    /\ entry = "start_scraping"
    /\ pc = "start"
    /\ input_header \in Headers
    /\ \E count \in 0 .. MaxLines :
          input_lines = [n \in 1 .. count |-> Line(input_header, LineHost(n))]
    /\ shop_host = << >>
    /\ socials_list = << >>
    /\ NoCall

\* scraper.scrape_shop_contact_info(host)
InitContact ==
    /\ entry = "scrape_shop_contact_info"
    /\ pc = "contact"
    /\ input_header = << >>
    /\ input_lines = << >>
    /\ shop_host \in { HostAbCd, HostXy, HostUpper }
    /\ socials_list = << >>
    /\ NoCall

\* scraper.scrape_shop_product_info(host); the host only goes into the URLs
InitProduct ==
    /\ entry = "scrape_shop_product_info"
    /\ pc = "listing"
    /\ input_header = << >>
    /\ input_lines = << >>
    /\ shop_host = HostAbCd
    /\ socials_list = << >>
    /\ NoCall

\* scraper._select_accurate_socials(socials_list, host)
InitResolver ==
    /\ entry = "_select_accurate_socials"
    /\ pc = "select"
    /\ input_header = << >>
    /\ input_lines = << >>
    /\ shop_host \in Hosts
    /\ socials_list \in SeqsUpTo(LinkPool, MaxCandidates)
    /\ NoCall

\* requests.get(f'http://{shop_host}{path}'), noted with the line of
\* stores.csv being processed and the rows output.csv holds at that moment
Get(path) ==
    requests' = Append(requests, [line |-> line_no, host |-> shop_host, path |-> path,
                                  rows |-> Len(output_rows)])

start_scraping_first_column ==
    /\ pc = "start"
    /\ url_column_index' = 0
    /\ pc' = "next_line"
    /\ UNCHANGED << input, line_no, shop_host, contact_frame, product_frame,
                    returned, output_rows, requests, single_shop_output >>

\* Lines 150-158: the header line is read and the url column looked up; a
\* header without it ends the run (pc = "aborted")
start_scraping ==
    /\ pc = "start"
    /\ IF STORE_FILE_URL_COLUMN_NAME \in Range(input_header)
       THEN /\ url_column_index' = PyIndex(input_header, STORE_FILE_URL_COLUMN_NAME)
            /\ pc' = "next_line"
       ELSE /\ pc' = "aborted"
            /\ UNCHANGED url_column_index
    /\ UNCHANGED << input, line_no, shop_host, contact_frame, product_frame,
                    returned, output_rows, requests, single_shop_output >>

\* Lines 160-163: the next line of input_reader, or the end of the loop
next_line ==
    /\ pc = "next_line"
    /\ IF line_no < Len(input_lines)
       THEN /\ line_no' = line_no + 1
            /\ shop_host' = input_lines[line_no + 1][url_column_index + 1]
            /\ single_shop_output' = ("shop_url" :> shop_host')
            /\ pc' = "contact"
       ELSE /\ pc' = "returned"
            /\ UNCHANGED << line_no, shop_host, single_shop_output >>
    /\ UNCHANGED << input, url_column_index, contact_frame, product_frame,
                    returned, output_rows, requests >>

AllFound(out) == \A key \in DOMAIN out : out[key] # << >>

contact_fetch_stopping(outcomes) ==
    /\ pc = "contact"
    /\ ep < Len(SCRAPING_ENDPOINTS)
    /\ \E r \in outcomes :
          /\ Get(SCRAPING_ENDPOINTS[ep + 1])
          /\ IF r.raised
             THEN /\ pc' = "raised"
                  /\ UNCHANGED contact_frame
             ELSE /\ pc' = pc
                  /\ ep' = IF AllFound(Extend(output, r))
                           THEN Len(SCRAPING_ENDPOINTS) ELSE ep + 1
                  /\ responses' = Append(responses, r)
                  /\ output' = Extend(output, r)
    /\ UNCHANGED << input, url_column_index, line_no, shop_host, product_frame,
                    returned, output_rows, single_shop_output >>

\* Lines 123-134: one iteration of the endpoint loop.  An exception of
\* requests.get is caught nowhere and ends the whole call (pc = "raised").
contact_fetch(outcomes) ==
    /\ pc = "contact"
    /\ ep < Len(SCRAPING_ENDPOINTS)
    /\ \E r \in outcomes :
          /\ Get(SCRAPING_ENDPOINTS[ep + 1])
          /\ IF r.raised
             THEN /\ pc' = "raised"
                  /\ UNCHANGED contact_frame
             ELSE /\ pc' = pc
                  /\ ep' = ep + 1
                  /\ responses' = Append(responses, r)
                  /\ output' = Extend(output, r)
    /\ UNCHANGED << input, url_column_index, line_no, shop_host, product_frame,
                    returned, output_rows, single_shop_output >>

\* Lines 136-139, and lines 164-166 when start_scraping made the call
contact_select ==
    /\ pc = "contact"
    /\ ep = Len(SCRAPING_ENDPOINTS)
    /\ \E res \in Resolutions(output, shop_host) :
          IF entry = "start_scraping"
          THEN /\ single_shop_output' = Update(single_shop_output, res)
               /\ pc' = "listing"
               /\ ep' = 0
               /\ output' = EmptyLists
               /\ responses' = << >>
               /\ UNCHANGED returned
          ELSE /\ pc' = "returned"
               /\ returned' = res
               /\ output' = res
               /\ UNCHANGED << ep, responses, single_shop_output >>
    /\ UNCHANGED << input, url_column_index, line_no, shop_host, product_frame,
                    output_rows, requests >>

\* return output (lines 52 and 82), and lines 167-169 when start_scraping
\* made the call
product_return(value) ==
    IF entry = "start_scraping"
    THEN /\ single_shop_output' = Update(single_shop_output, value)
         /\ pc' = "write"
         /\ UNCHANGED returned
    ELSE /\ pc' = "returned"
         /\ returned' = value
         /\ UNCHANGED single_shop_output

\* Lines 45-62: the listing page, with up to `most` distinct links on it
listing_fetch(most) ==
    /\ pc = "listing"
    /\ \E r \in ListingOutcomes(most) :
          /\ Get(PRODUCT_LIST_ENDPOINT)
          /\ IF r.raised
             THEN /\ pc' = "raised"
                  /\ UNCHANGED << product_frame, returned, single_shop_output >>
             ELSE IF r.status_code # 200
             THEN /\ product_return(EmptyDict)
                  /\ UNCHANGED product_frame
             ELSE \E links \in retained(findall("product", r.text)) :
                    /\ found_links' = findall("product", r.text)
                    /\ product_links' = links
                    /\ UNCHANGED << i, product_output, product_responses >>
                    /\ IF links = << >>
                       THEN product_return(EmptyDict)
                       ELSE /\ pc' = "product"
                            /\ UNCHANGED << returned, single_shop_output >>
    /\ UNCHANGED << input, url_column_index, line_no, shop_host, contact_frame,
                    output_rows >>

\* Lines 64-80: one iteration of the product loop; `rich` draws the response
\* from DetailOutcomes, otherwise from FewDetailOutcomes
product_fetch(rich) ==
    /\ pc = "product"
    /\ i < Len(product_links)
    /\ LET product_link == product_links[i + 1]
       IN  \E r \in IF rich THEN DetailOutcomes(product_link)
                            ELSE FewDetailOutcomes(product_link) :
             /\ Get(product_link \o ".json")
             /\ IF r.raised
                THEN /\ pc' = "raised"
                     /\ UNCHANGED << i, product_output, product_responses,
                                     returned, single_shop_output >>
                ELSE LET out == Update(product_output,
                                       (title_key(i) :> product_fields(r)[1])
                                       @@ (img_src_key(i) :> product_fields(r)[2]))
                     IN  /\ product_output' = out
                         /\ product_responses' = Append(product_responses, r)
                         /\ i' = i + 1
                         /\ IF i + 1 = Len(product_links)
                            THEN product_return(out)
                            ELSE /\ pc' = pc
                                 /\ UNCHANGED << returned, single_shop_output >>
    /\ UNCHANGED << input, url_column_index, line_no, shop_host, contact_frame,
                    found_links, product_links, output_rows >>

\* Lines 172-173: the row of the line is written to output.csv
write_row ==
    /\ pc = "write"
    /\ output_rows' = Append(output_rows, writerow(single_shop_output))
    /\ pc' = "next_line"
    /\ found_links' = << >>
    /\ product_links' = << >>
    /\ i' = 0
    /\ product_output' = EmptyDict
    /\ product_responses' = << >>
    /\ UNCHANGED << input, url_column_index, line_no, shop_host, contact_frame,
                    returned, requests, single_shop_output >>

\* A direct call of _select_accurate_socials
select_call ==
    /\ pc = "select"
    /\ \E v \in select_accurate_socials(socials_list, shop_host) :
          /\ returned' = v
          /\ pc' = "returned"
    /\ UNCHANGED << input, url_column_index, line_no, shop_host, contact_frame,
                    product_frame, output_rows, requests, single_shop_output >>

Next ==
    \/ start_scraping
    \/ next_line
    \/ contact_fetch(BatchContactOutcomes)
    \/ contact_select
    \/ listing_fetch(BatchMaxLinks)
    \/ product_fetch(FALSE)
    \/ write_row

Spec == Init /\ [][Next]_vars

NextContact == contact_fetch(ContactOutcomes) \/ contact_select

SpecContact == InitContact /\ [][NextContact]_vars

NextProduct == listing_fetch(MaxLinks) \/ product_fetch(FALSE)

SpecProduct == InitProduct /\ [][NextProduct]_vars

NextProductDetail == listing_fetch(DetailMaxLinks) \/ product_fetch(TRUE)

SpecProductDetail == InitProduct /\ [][NextProductDetail]_vars

NextResolver == select_call

SpecResolver == InitResolver /\ [][NextResolver]_vars

----------------------------------------------------------------------------
(* The early-exit strategy of the design (section 4.3), run on the responses
   the five endpoints gave: for each key, the first match on the first
   endpoint, in order, that answered successfully and holds a match *)

RECURSIVE first_match(_, _)
first_match(key, resps) ==
    IF resps = << >> THEN None
    ELSE IF Head(resps).status_code = 200 /\ findall(key, Head(resps).text) # << >>
         THEN Some(Head(findall(key, Head(resps).text)))
         ELSE first_match(key, Tail(resps))

early_exit(resps) == [key \in Range(STORE_INFO_REGEXES) |-> first_match(key, resps)]

----------------------------------------------------------------------------
(* Properties *)

Slots == 0 .. (NUMBER_OF_PRODUCTS - 1)

ProductReturned == entry = "scrape_shop_product_info" /\ pc = "returned"

ContactReturned == entry = "scrape_shop_contact_info" /\ pc = "returned"

\* C1: whatever the listing page and the product pages answer,
\* scrape_shop_product_info returns a title entry and an image entry for
\* each of the slots 0..4
C1_ExactlyNRecords ==
    ProductReturned =>
        DOMAIN returned = { title_key(n) : n \in Slots } \cup { img_src_key(n) : n \in Slots }

\* The score of the claim: the number of host tokens (the part of the host
\* before its first '.', split on '-') that occur in the percent-decoded,
\* trimmed, lowercased candidate
HasDot(host) == \E k \in DOMAIN host : host[k] = "."

BeforeFirstDot(host) ==
    SubSeq(host, 1, (CHOOSE k \in DOMAIN host :
                        host[k] = "." /\ \A m \in 1 .. (k - 1) : host[m] # ".") - 1)

Occurs(word, t) ==
    \E a \in 0 .. (Len(t) - Len(word)) : SubSeq(t, a + 1, a + Len(word)) = word

ClaimScore(candidate, host) ==
    LET tokens == PySplit(BeforeFirstDot(host), "-")
        t == PyLower(PyStrip(unquote(candidate)))
    IN  Cardinality({ n \in DOMAIN tokens : Occurs(tokens[n], t) })

IsBest(candidate, candidates, host) ==
    \A k \in DOMAIN candidates :
        ClaimScore(candidate, host) >= ClaimScore(candidates[k], host)

C3_FailuresContained == entry = "start_scraping" => pc # "raised"

\* A product response the claim counts as complete: 2xx, parses, and holds
\* both product.title and product.image.src
Complete(r) ==
    /\ r.status_code >= 200 /\ r.status_code < 300
    /\ r.text.json.kind = "object"
    /\ "product" \in DOMAIN r.text.json.fields
    /\ LET product == r.text.json.fields["product"]
       IN  /\ product.kind = "object"
           /\ "title" \in DOMAIN product.fields
           /\ "image" \in DOMAIN product.fields
           /\ product.fields["image"].kind = "object"
           /\ "src" \in DOMAIN product.fields["image"].fields

\* C4: the record of every slot filled so far is all-or-nothing: title and
\* image both taken from a complete response, or both absent
C4_AllOrNothing ==
    entry = "scrape_shop_product_info" =>
        \A n \in DOMAIN product_responses :
            LET r == product_responses[n]
                title == product_output[title_key(n - 1)]
                image == product_output[img_src_key(n - 1)]
            IN  IF Complete(r)
                THEN /\ title = Some(r.text.json.fields["product"].fields["title"].val)
                     /\ image = Some(r.text.json.fields["product"].fields["image"].fields["src"].val)
                ELSE title = None /\ image = None

Non2xx(r) == r.status_code < 200 \/ r.status_code >= 300

AllEndpointsNon2xx ==
    /\ Len(responses) = Len(SCRAPING_ENDPOINTS)
    /\ \A k \in DOMAIN responses : Non2xx(responses[k])

\* C5: when every contact endpoint answers with a non-2xx status,
\* scrape_shop_contact_info raises nothing and returns twitter, facebook and
\* email, all three None
C5_AllAbsent ==
    (entry = "scrape_shop_contact_info" /\ AllEndpointsNon2xx) =>
        /\ pc \in { "contact", "returned" }
        /\ pc = "returned" =>
              /\ DOMAIN returned = { "twitter", "facebook", "email" }
              /\ \A key \in DOMAIN returned : returned[key] = None

C5_Witness == ContactReturned /\ AllEndpointsNon2xx

DetailRequests == SubSeq(requests, 2, Len(requests))

\* C6: the retained links are distinct links of the listing page, there are
\* min(N, number of distinct links) of them, and no link is fetched twice
C6_Deduplicated ==
    entry = "scrape_shop_product_info" =>
        /\ Range(product_links) \subseteq Range(found_links)
        /\ \A a, b \in DOMAIN product_links : a # b => product_links[a] # product_links[b]
        /\ Len(product_links) = Min(NUMBER_OF_PRODUCTS, Cardinality(Range(found_links)))
        /\ Len(DetailRequests) <= Len(product_links)
        /\ \A a \in DOMAIN DetailRequests :
              /\ DetailRequests[a].path = product_links[a] \o ".json"
              /\ \A b \in DOMAIN DetailRequests :
                    a # b => DetailRequests[a].path # DetailRequests[b].path

C6_Witness ==
    /\ ProductReturned
    /\ Cardinality(Range(found_links)) > NUMBER_OF_PRODUCTS
    /\ Len(found_links) > Cardinality(Range(found_links))
    /\ Len(product_links) = NUMBER_OF_PRODUCTS
    /\ Len(DetailRequests) = NUMBER_OF_PRODUCTS

\* The requests of a line come in the order contact endpoints, listing,
\* products
RequestRank(path) ==
    IF \E k \in DOMAIN SCRAPING_ENDPOINTS : SCRAPING_ENDPOINTS[k] = path THEN 1
    ELSE IF path = PRODUCT_LIST_ENDPOINT THEN 2 ELSE 3

\* C7: every request of a line is issued when exactly the rows of the lines
\* before it are written, the requests of a line come as contact endpoints,
\* then listing, then products, and when the run is over every line has its
\* one row, in input order
C7_OneRowPerLineInOrder ==
    entry = "start_scraping" =>
        /\ \A k \in DOMAIN requests : requests[k].rows = requests[k].line - 1
        /\ \A a, b \in DOMAIN requests :
              (a < b /\ requests[a].line = requests[b].line) =>
                  RequestRank(requests[a].path) <= RequestRank(requests[b].path)
        /\ pc \in { "returned", "raised" } =>
              /\ Len(output_rows) = Len(input_lines)
              /\ \A n \in DOMAIN output_rows :
                    output_rows[n]["shop_url"] = input_lines[n][url_column_index + 1]

NoUrlColumn == STORE_FILE_URL_COLUMN_NAME \notin Range(input_header)

\* C8: under a header without a 'url' column no request is issued and no
\* row is written, whatever lines follow
C8_AbortsBeforeScraping ==
    (entry = "start_scraping" /\ NoUrlColumn) =>
        /\ requests = << >>
        /\ output_rows = << >>
        /\ pc \in { "start", "aborted" }

C8_Witness ==
    /\ entry = "start_scraping"
    /\ pc = "aborted"
    /\ input_header = << "URL", "name" >>
    /\ Len(input_lines) = MaxLines

\* A match for every key was found on the first m endpoints
FoundAllBy(m) == AllFound(early_exit(SubSeq(responses, 1, m)))

InFixedOrder ==
    /\ Len(requests) <= Len(SCRAPING_ENDPOINTS)
    /\ \A k \in DOMAIN requests : requests[k].path = SCRAPING_ENDPOINTS[k]

\* C9 as stated: the endpoints are visited in the fixed order, and once a
\* match was found for every key no further endpoint is fetched
C9_StopsEarly ==
    entry = "scrape_shop_contact_info" =>
        /\ InFixedOrder
        /\ \A k \in DOMAIN requests : k > 1 => ~FoundAllBy(k - 1)

\* C9 as amended: the endpoints are visited in the fixed order, and the call
\* returns only after all of them were fetched, whatever was found
C9_VisitsAllEndpoints ==
    entry = "scrape_shop_contact_info" =>
        /\ InFixedOrder
        /\ pc = "returned" => Len(requests) = Len(SCRAPING_ENDPOINTS)

C9_Witness ==
    /\ ContactReturned
    /\ FoundAllBy(1)
    /\ Len(requests) = Len(SCRAPING_ENDPOINTS)

AllEndpointsSucceed ==
    /\ Len(responses) = Len(SCRAPING_ENDPOINTS)
    /\ \A k \in DOMAIN responses : responses[k].status_code = 200

\* Everything the key's regular expression found on the five pages
RECURSIVE all_matches(_, _)
all_matches(key, resps) ==
    IF resps = << >> THEN << >>
    ELSE findall(key, Head(resps).text) \o all_matches(key, Tail(resps))

\* C10 as stated: when all endpoints succeed, the result equals the result
\* of the early-exit strategy
C10_SameAsEarlyExit ==
    (ContactReturned /\ AllEndpointsSucceed) => returned = early_exit(responses)

\* The first match is the only string with the highest score among the matches
FirstMatchWins(key) ==
    LET found == all_matches(key, responses)
    IN  /\ found # << >>
        /\ \A k \in DOMAIN found :
              found[k] # Head(found) =>
                  ClaimScore(found[k], shop_host) < ClaimScore(Head(found), shop_host)

\* C10 as amended: when all endpoints succeed, both strategies leave the same
\* keys absent, the result of a key is one of its matches, and it is the
\* early-exit result whenever the first match alone has the highest score
C10_SameWhenFirstMatchWins ==
    (ContactReturned /\ AllEndpointsSucceed) =>
        \A key \in DOMAIN returned :
            /\ (returned[key] = None) <=> (early_exit(responses)[key] = None)
            /\ returned[key] # None =>
                  returned[key][1] \in Range(all_matches(key, responses))
            /\ FirstMatchWins(key) => returned[key] = early_exit(responses)[key]

C10_Witness ==
    /\ ContactReturned
    /\ AllEndpointsSucceed
    /\ shop_host = HostAbCd
    /\ FirstMatchWins("twitter")
    /\ Cardinality(Range(all_matches("twitter", responses))) = 2
    /\ returned["twitter"] = Some(TwAbcd)

=============================================================================
